---- MODULE Spec2Model ----
(***************************************************************************)
(* A model of babelapi/babel/tower.py: TowerOfBabel resolves the parsed    *)
(* declarations of each Babel document (namespace, include, alias, type    *)
(* definition, route definition) against a per-document environment and    *)
(* registers the resulting data types and routes on the Api's namespaces.  *)
(***************************************************************************)
EXTENDS Integers, Sequences, FiniteSets, TLC

(***************************************************************************)
(* Bounds of the model.                                                    *)
(***************************************************************************)
\* number of documents (scriptures) one run parses
MaxDocs == 2
\* number of top-level declarations processed over the whole run
MaxDecls == 3
\* the interpreter's recursion limit (sys.getrecursionlimit(), 1000 by
\* default), scaled down: the number of call frames add_to_api and the
\* _include_babelh calls below it can have on the stack
RecursionLimit == 6

(***************************************************************************)
(* Values: what an environment entry, a field's data type, a struct's      *)
(* super type or a route's payload can be.  Python tells a class from an   *)
(* object with inspect.isclass; here the kind is a tag.                    *)
(*   none : Python's None                                                  *)
(*   ctor : a data type class (uninstantiated), named by cls               *)
(*   inst : an object, named by its identity id (its index in the heap)    *)
(***************************************************************************)
None == [kind |-> "none", cls |-> "", id |-> 0]

Ctor(c) == [kind |-> "ctor", cls |-> c, id |-> 0]

Inst(i) == [kind |-> "inst", cls |-> "", id |-> i]

isclass(v) == v.kind = "ctor"

\* TowerOfBabel.data_types
data_types ==
    {"Binary", "Boolean", "Float32", "Float64", "Int32", "Int64", "List",
     "String", "Struct", "Timestamp", "UInt32", "UInt64", "Union"}

(***************************************************************************)
(* Objects of the heap.  A data type object carries its class, and, for a  *)
(* scalar or list, the keyword arguments it was constructed with; for a    *)
(* struct or union built from a type definition, its name, fields and      *)
(* super type.                                                             *)
(***************************************************************************)
\* obj(**dict(attrs)): an object of class c constructed with keyword arguments
Construct(c, attrs) ==
    [cls |-> c, name |-> "", attrs |-> attrs, fields |-> <<>>, super |-> None]

\* composite_type_obj(item.name, item.doc, api_type_fields, super_type)
Composite(c, name, fields, super) ==
    [cls |-> c, name |-> name, attrs |-> <<>>, fields |-> fields, super |-> super]

\* calling a class creates a new object: it gets the next identity
Alloc(h, obj) == Append(h, obj)

\* the identity of the object Alloc(h, obj) created
NewId(h) == Len(h) + 1

\* default_env['Null'] = Null(): the one object that exists before any parse
InitHeap == Alloc(<<>>, Construct("Null", <<>>))

\* TowerOfBabel.default_env as the class body leaves it
DefaultEnv ==
    [n \in data_types \cup {"Empty", "Null"} |->
        IF n = "Null" THEN Inst(NewId(<<>>)) ELSE Ctor(n)]

\* an environment with no binding (no document is being processed)
NoEnv == [n \in {} |-> None]

\* env[name] = v
Bind(e, name, v) == [n \in DOMAIN e \cup {name} |-> IF n = name THEN v ELSE e[n]]

(***************************************************************************)
(* Paths are sequences of tokens; the token "/" is the separator.          *)
(***************************************************************************)
RECURSIVE lstrip(_)
\* str.lstrip('/')
lstrip(p) == IF p # <<>> /\ Head(p) = "/" THEN lstrip(Tail(p)) ELSE p

RECURSIVE rstrip(_)
\* str.rstrip('/')
rstrip(p) ==
    IF p # <<>> /\ p[Len(p)] = "/" THEN rstrip(SubSeq(p, 1, Len(p) - 1)) ELSE p

\* str.rfind('/') + 1
rfindSep(p) ==
    LET S == {i \in 1..Len(p) : p[i] = "/"}
    IN IF S = {} THEN 0 ELSE CHOOSE i \in S : \A j \in S : j <= i

\* os.path.dirname (posixpath)
dirname(p) ==
    LET head == SubSeq(p, 1, rfindSep(p))
    IN IF head # <<>> /\ \E i \in 1..Len(head) : head[i] # "/"
       THEN rstrip(head) ELSE head

\* os.path.join(a, b) (posixpath, two components)
join(a, b) ==
    IF b # <<>> /\ Head(b) = "/" THEN b
    ELSE IF a = <<>> \/ a[Len(a)] = "/" THEN a \o b
    ELSE a \o <<"/">> \o b

\* os.path.join(path, name) + '.babelh'
babelh_path(path, name) == join(path, <<name>>) \o <<".babelh">>

(***************************************************************************)
(* The parser's output (babelapi.babel.parser), the input of the tower.    *)
(* Every declaration is a record of one shape; type tells the class.       *)
(***************************************************************************)
NoDecl ==
    [type |-> "", name |-> "", target |-> "", data_type_name |-> "",
     data_type_attrs |-> <<>>, composite_type |-> "", extends |-> "",
     fields |-> <<>>, path |-> <<>>, request_data_type_name |-> "",
     response_data_type_name |-> "", error_data_type_name |-> ""]

BabelNamespace(name) == [NoDecl EXCEPT !.type = "BabelNamespace", !.name = name]

BabelInclude(target) == [NoDecl EXCEPT !.type = "BabelInclude", !.target = target]

BabelAlias(name, dtn, attrs) ==
    [NoDecl EXCEPT !.type = "BabelAlias", !.name = name,
                   !.data_type_name = dtn, !.data_type_attrs = attrs]

BabelTypeDef(composite, name, extends, fields) ==
    [NoDecl EXCEPT !.type = "BabelTypeDef", !.composite_type = composite,
                   !.name = name, !.extends = extends, !.fields = fields]

BabelRouteDef(name, path, req, resp, err) ==
    [NoDecl EXCEPT !.type = "BabelRouteDef", !.name = name, !.path = path,
                   !.request_data_type_name = req,
                   !.response_data_type_name = resp,
                   !.error_data_type_name = err]

\* an attribute (k, v) whose value is a literal
LitAttr(k, v) == [k |-> k, sym |-> FALSE, v |-> v]

\* an attribute (k, v) whose value is a BabelSymbol naming v
SymAttr(k, v) == [k |-> k, sym |-> TRUE, v |-> v]

(***************************************************************************)
(* A raw field of a type definition.  default is "null" for Python's None  *)
(* and a literal otherwise; check_ok is the answer the field's data type   *)
(* gives when its check() is called on the default (check() belongs to the *)
(* data type catalog, the tower only calls it).                            *)
(***************************************************************************)
NoField ==
    [kind |-> "", name |-> "", data_type_name |-> "", data_type_attrs |-> <<>>,
     nullable |-> FALSE, has_default |-> FALSE, default |-> "", check_ok |-> TRUE]

BabelSymbol(name) == [NoField EXCEPT !.kind = "BabelSymbol", !.name = name]

BabelCatchAllSymbol == [NoField EXCEPT !.kind = "BabelCatchAllSymbol"]

BabelField(name, dtn, attrs) ==
    [NoField EXCEPT !.kind = "BabelField", !.name = name,
                    !.data_type_name = dtn, !.data_type_attrs = attrs]

WithDefault(f, nullable, default, check_ok) ==
    [f EXCEPT !.nullable = nullable, !.has_default = TRUE,
              !.default = default, !.check_ok = check_ok]

(***************************************************************************)
(* The resolver.  Each operator returns a record: err is "" when the code  *)
(* returns and the kind of the exception when it raises; heap is the heap  *)
(* after the call, val the value returned, attrs a list returned, env the  *)
(* environment after the call (for the two builders that bind a name).     *)
(***************************************************************************)
Front(s) == SubSeq(s, 1, Len(s) - 1)

\* the value of a resolved attribute: a literal, a BabelSymbol left as it
\* was, or a data type object
AttrLit(k, v) == [k |-> k, tag |-> "lit", s |-> v, id |-> 0]

AttrSym(k, v) == [k |-> k, tag |-> "sym", s |-> v, id |-> 0]

AttrObj(k, i) == [k |-> k, tag |-> "obj", s |-> "", id |-> i]

\* dict(item.data_type_attrs): the attributes as the parser gave them
RawAttrs(attrs) ==
    [i \in 1..Len(attrs) |->
        IF attrs[i].sym THEN AttrSym(attrs[i].k, attrs[i].v)
        ELSE AttrLit(attrs[i].k, attrs[i].v)]

Raise(e, h) ==
    [err |-> e, heap |-> h, val |-> None, attrs |-> <<>>, env |-> NoEnv]

Return(h, v) ==
    [err |-> "", heap |-> h, val |-> v, attrs |-> <<>>, env |-> NoEnv]

\* _resolve_type(env, name, []), as _resolve_attrs calls it: with no
\* attributes _resolve_attrs(env, []) is [], so a class is called with no
\* keyword argument and an object is returned as it is
_resolve_type_no_attrs(env, h, data_type_name) ==
    LET obj == env[data_type_name]
    IN IF isclass(obj)
       THEN Return(Alloc(h, Construct(obj.cls, <<>>)), Inst(NewId(h)))
       ELSE Return(h, env[data_type_name])

\* new_attrs.append((k, self._resolve_type(env, v.name, []))): t is what
\* the call returned
AppendResolved(r, a, t) ==
    [Return(t.heap, None) EXCEPT !.attrs = Append(r.attrs, AttrObj(a.k, t.val.id))]

\* one round of the loop of _resolve_attrs on the attribute a; r is the
\* state of the loop before it
ResolveAttr(env, h, r, a) ==
    IF r.err # "" THEN r
    ELSE IF a.sym
    THEN IF a.v \notin DOMAIN env THEN Raise("UndefinedSymbol", h)
         ELSE AppendResolved(r, a, _resolve_type_no_attrs(env, r.heap, a.v))
    ELSE [r EXCEPT !.attrs = Append(r.attrs, AttrLit(a.k, a.v))]

\* TowerOfBabel._resolve_attrs; loop[i] is the state of the loop after i
\* attributes, attrs of the result is new_attrs
_resolve_attrs(env, h, attrs) ==
    LET loop[i \in 0..Len(attrs)] ==
          IF i = 0 THEN [Return(h, None) EXCEPT !.attrs = <<>>]
          ELSE ResolveAttr(env, h, loop[i - 1], attrs[i])
    IN loop[Len(attrs)]

\* data_type = obj(**dict(resolved_data_type_attrs)): r is what
\* _resolve_attrs returned
Instantiate(obj, r) ==
    IF r.err # "" THEN r
    ELSE Return(Alloc(r.heap, Construct(obj.cls, r.attrs)), Inst(NewId(r.heap)))

\* _resolve_type without its elif arm: attributes given for an object are
\* dropped silently
_resolve_type_drops_attrs(env, h, data_type_name, data_type_attrs) ==
    IF isclass(env[data_type_name])
    THEN Instantiate(env[data_type_name], _resolve_attrs(env, h, data_type_attrs))
    ELSE Return(h, env[data_type_name])

\* _resolve_type with its else arm returning a copy of the object
_resolve_type_copies(env, h, data_type_name, data_type_attrs) ==
    IF isclass(env[data_type_name])
    THEN Instantiate(env[data_type_name], _resolve_attrs(env, h, data_type_attrs))
    ELSE IF data_type_attrs # <<>> THEN Raise("AttributesOnInstance", h)
    ELSE Return(Alloc(h, h[env[data_type_name].id]), Inst(NewId(h)))

\* TowerOfBabel._resolve_type
_resolve_type(env, h, data_type_name, data_type_attrs) ==
    IF isclass(env[data_type_name])
    THEN Instantiate(env[data_type_name], _resolve_attrs(env, h, data_type_attrs))
    ELSE IF data_type_attrs # <<>> THEN Raise("AttributesOnInstance", h)
    ELSE Return(h, env[data_type_name])

\* SymbolField(babel_field.name, babel_field.doc)
SymbolField(name) ==
    [name |-> name, symbol |-> TRUE, data_type |-> None, nullable |-> FALSE,
     has_default |-> FALSE, default |-> ""]

\* Field(babel_field.name, data_type, ..., nullable=babel_field.nullable, ...)
Field(name, data_type, nullable) ==
    [name |-> name, symbol |-> FALSE, data_type |-> data_type,
     nullable |-> nullable, has_default |-> FALSE, default |-> ""]

\* api_type_field.set_default(babel_field.default)
set_default(f, default) == [f EXCEPT !.has_default = TRUE, !.default = default]

\* the guard of data_type.check(babel_field.default) in _create_field
NeedsCheck(bf) == ~(bf.nullable /\ bf.default = "null")

\* the else arm of _create_field after data_type was resolved: r is what
\* _resolve_type returned
TypedField(h, bf, r) ==
    IF r.err # "" THEN r
    ELSE IF bf.has_default
    THEN IF NeedsCheck(bf) /\ ~bf.check_ok THEN Raise("InvalidDefault", h)
         ELSE Return(r.heap, set_default(Field(bf.name, r.val, bf.nullable),
                                         bf.default))
    ELSE Return(r.heap, Field(bf.name, r.val, bf.nullable))

\* TowerOfBabel._create_field; val is the field built
_create_field(env, h, bf) ==
    IF bf.kind = "BabelSymbol" THEN Return(h, SymbolField(bf.name))
    ELSE IF bf.data_type_name \notin DOMAIN env THEN Raise("UndefinedSymbol", h)
    ELSE TypedField(h, bf,
             _resolve_type(env, h, bf.data_type_name, bf.data_type_attrs))

\* api_type_fields.append(api_type_field): f is what _create_field returned
AppendField(r, f) ==
    IF f.err # "" THEN f
    ELSE [Return(f.heap, None) EXCEPT !.attrs = Append(r.attrs, f.val)]

\* one round of the loop over item.fields on the raw field bf; r is the
\* state of the loop before it
BuildField(env, r, bf) ==
    IF r.err # "" THEN r
    ELSE IF bf.kind = "BabelCatchAllSymbol" THEN r
    ELSE AppendField(r, _create_field(env, r.heap, bf))

\* the loop over item.fields in _create_type; loop[i] is the state of the
\* loop after i fields, attrs of the result is api_type_fields
BuildFields(env, h, fields) ==
    LET loop[i \in 0..Len(fields)] ==
          IF i = 0 THEN [Return(h, None) EXCEPT !.attrs = <<>>]
          ELSE BuildField(env, loop[i - 1], fields[i])
    IN loop[Len(fields)]

\* the super type _create_type looks up for a struct with an extends clause
SuperType(env, item) ==
    IF item.composite_type = "struct" /\ item.extends # ""
    THEN env[item.extends] ELSE None

\* the class _create_type picks for item.composite_type
CompositeClass(item) ==
    IF item.composite_type = "struct" THEN "Struct" ELSE "Union"

\* env[item.name] = api_type, the last statement of _create_type
BindType(env, item, v) == Bind(env, item.name, v)

\* _create_type binding item.name before the loop over item.fields has
\* succeeded
BuildTypeBindsFirst(env, h, item, r) ==
    IF r.err # ""
    THEN [Raise(r.err, h) EXCEPT !.env = BindType(env, item, Inst(NewId(h)))]
    ELSE [Return(Alloc(r.heap, Composite(CompositeClass(item), item.name, r.attrs,
                                         SuperType(env, item))),
                 Inst(NewId(r.heap))) EXCEPT
            !.env = BindType(env, item, Inst(NewId(r.heap)))]

\* _create_type from the construction of api_type on: r is what the loop
\* over item.fields left
BuildType(env, h, item, r) ==
    IF r.err # "" THEN [Raise(r.err, h) EXCEPT !.env = env]
    ELSE [Return(Alloc(r.heap, Composite(CompositeClass(item), item.name, r.attrs,
                                         SuperType(env, item))),
                 Inst(NewId(r.heap))) EXCEPT
            !.env = BindType(env, item, Inst(NewId(r.heap)))]

\* TowerOfBabel._create_type; val is the type built, env the environment after
_create_type(env, h, item) ==
    IF item.composite_type = "struct" /\ item.extends # ""
         /\ item.extends \notin DOMAIN env
    THEN [Raise("UndefinedSymbol", h) EXCEPT !.env = env]
    ELSE IF item.composite_type \notin {"struct", "union"}
    THEN [Raise("UnknownCompositeKind", h) EXCEPT !.env = env]
    ELSE BuildType(env, h, item, BuildFields(env, h, item.fields))

\* the first test of _create_alias
AliasNameTaken(env, item) == item.name \in DOMAIN env

\* TowerOfBabel._create_alias; env is the environment after
_create_alias(env, h, item) ==
    IF AliasNameTaken(env, item)
    THEN [Raise("AlreadyDefined", h) EXCEPT !.env = env]
    ELSE IF item.data_type_name \notin DOMAIN env
    THEN [Raise("UndefinedSymbol", h) EXCEPT !.env = env]
    ELSE IF isclass(env[item.data_type_name])
    THEN [Return(Alloc(h, Construct(env[item.data_type_name].cls,
                                    RawAttrs(item.data_type_attrs))),
                 Inst(NewId(h))) EXCEPT
            !.env = Bind(env, item.name, Inst(NewId(h)))]
    ELSE IF item.data_type_attrs # <<>>
    THEN [Raise("AttributesOnInstance", h) EXCEPT !.env = env]
    ELSE [Return(h, env[item.data_type_name]) EXCEPT
            !.env = Bind(env, item.name, env[item.data_type_name])]

\* TowerOfBabel._resolve_data_type
_resolve_data_type(env, h, data_type_name) ==
    IF data_type_name = "" THEN Return(h, None)
    ELSE IF data_type_name \notin DOMAIN env THEN Raise("UndefinedSymbol", h)
    ELSE Return(h, env[data_type_name])

(***************************************************************************)
(* The Api and its namespaces (babelapi.api).  A namespace keeps the data  *)
(* types and the routes registered on it in the order they were added.     *)
(***************************************************************************)
\* the Api of a new tower: no namespace
NoApi == [n \in {} |-> [data_types |-> <<>>, routes |-> <<>>]]

\* Api.ensure_namespace: the namespace of that name, created when missing
ensure_namespace(a, name) ==
    IF name \in DOMAIN a THEN a
    ELSE [n \in DOMAIN a \cup {name} |->
            IF n = name THEN [data_types |-> <<>>, routes |-> <<>>] ELSE a[n]]

\* the names of the data types registered on a namespace
TypeNames(h, ns) == {h[ns.data_types[i]].name : i \in 1..Len(ns.data_types)}

\* the names of the routes registered on a namespace
RouteNames(ns) == {ns.routes[i].name : i \in 1..Len(ns.routes)}

\* ApiNamespace.add_data_type refuses a data type whose name it already has
DuplicateType(a, h, name, id) == h[id].name \in TypeNames(h, a[name])

\* ApiNamespace.add_data_type
add_data_type(a, name, id) ==
    [a EXCEPT ![name].data_types = Append(@, id)]

\* ApiNamespace.add_route refuses a route whose name it already has
DuplicateRoute(a, name, route) == route.name \in RouteNames(a[name])

\* ApiNamespace.add_route
add_route(a, name, route) ==
    [a EXCEPT ![name].routes = Append(@, route)]

\* str.lower() on the route names of the model
lower(s) ==
    CASE s = "GetA" -> "geta"
      [] s = "Put" -> "put"
      [] s = "X" -> "x"
      [] OTHER -> s

\* the path of a route with item.path[1:] when it starts with a separator,
\* in place of item.path.lstrip('/')
RoutePathStripsOne(item) ==
    IF item.path # <<>>
    THEN (IF Head(item.path) = "/" THEN Tail(item.path) ELSE item.path)
    ELSE <<lower(item.name)>>

\* the path add_to_api gives a route
RoutePath(item) ==
    IF item.path # <<>> THEN lstrip(item.path) ELSE <<lower(item.name)>>

\* ApiRoute(item.name, path, item.doc, request, response, error, item.attrs)
ApiRoute(name, path, request, response, error) ==
    [name |-> name, path |-> path, request_data_type |-> request,
     response_data_type |-> response, error_data_type |-> error]

(***************************************************************************)
(* The inputs: the documents' paths, the headers on disk, and the          *)
(* declarations a document is made of.                                     *)
(***************************************************************************)
\* the namespaces documents declare
NsNames == {"files", "users"}

\* the path of a document given to the tower
DocPath == <<"api", "/", "v1", "/", "files.babel">>

\* the .babelh files on disk and what the parser makes of each
Headers ==
    (<<"api", "/", "v1", "/", "shared", ".babelh">> :>
        <<BabelTypeDef("struct", "Shared", "", <<>>)>>)
 @@ (<<"api", "/", "v1", "/", "outer", ".babelh">> :>
        <<BabelAlias("Str", "String", <<>>), BabelInclude("inner")>>)
 @@ (<<"api", "/", "inner", ".babelh">> :>
        <<BabelTypeDef("struct", "Inner", "", <<BabelField("s", "Str", <<>>)>>),
          BabelInclude("ping")>>)
 @@ (<<"api", "/", "v1", "/", "inner", ".babelh">> :>
        <<BabelTypeDef("struct", "Inner", "", <<>>)>>)
 @@ (<<"api", "/", "v1", "/", "routes", ".babelh">> :>
        <<BabelTypeDef("struct", "String", "", <<>>),
          BabelRouteDef("GetA", <<>>, "", "", "")>>)
 @@ (<<"api", "/", "v1", "/", "ns", ".babelh">> :>
        <<BabelNamespace("files")>>)
 @@ (<<"ping", ".babelh">> :> <<BabelInclude("pong")>>)
 @@ (<<"pong", ".babelh">> :> <<BabelInclude("ping")>>)

\* os.path.exists(babelh_path)
exists(p) == p \in DOMAIN Headers

\* a struct D with one field f of type dtn that has a default
DefaultDef(dtn, nullable, default, check_ok) ==
    BabelTypeDef("struct", "D", "",
        <<WithDefault(BabelField("f", dtn, <<>>), nullable, default, check_ok)>>)

\* the declarations a document can hold after its first
Decls ==
    { BabelAlias("MyInt", "Int32", <<>>),
      BabelAlias("L", "List", <<SymAttr("data_type", "Nope")>>),
      BabelAlias("Bad", "MyInt", <<LitAttr("max_value", "8")>>),
      BabelAlias("N", "Null", <<>>),
      BabelTypeDef("struct", "A", "",
          <<WithDefault(BabelField("a", "Int32", <<>>), FALSE, "val", TRUE),
            BabelField("b", "MyInt", <<>>),
            BabelField("c", "MyInt", <<>>),
            BabelField("d", "Int32", <<>>)>>),
      BabelTypeDef("struct", "B", "Shared",
          <<WithDefault(BabelField("s", "String", <<LitAttr("max_length", "8")>>),
                        TRUE, "null", FALSE),
            BabelField("t", "String", <<LitAttr("max_length", "9")>>),
            BabelField("n", "N", <<>>)>>),
      BabelTypeDef("struct", "C", "String", <<>>),
      BabelTypeDef("union", "U", "",
          <<BabelSymbol("tag"), BabelCatchAllSymbol,
            BabelField("m", "List", <<SymAttr("data_type", "Int32"),
                                      LitAttr("max_items", "8")>>),
            BabelField("l", "List", <<SymAttr("data_type", "MyInt")>>)>>),
      BabelTypeDef("struct", "S", "", <<BabelField("self", "S", <<>>)>>),
      BabelTypeDef("struct", "String", "", <<>>),
      BabelTypeDef("enum", "E", "", <<>>),
      BabelTypeDef("struct", "F", "",
          <<BabelField("n", "Null", <<LitAttr("max_length", "8")>>)>>),
      DefaultDef("Null", FALSE, "null", TRUE),
      DefaultDef("Int32", FALSE, "null", FALSE),
      DefaultDef("Int32", TRUE, "val", FALSE),
      BabelRouteDef("GetA", <<>>, "", "MyInt", ""),
      BabelRouteDef("Y", <<"y", "/", "Z">>, "N", "", ""),
      BabelRouteDef("Put", <<"/", "/", "X", "/", "y">>, "", "String", "Null"),
      BabelRouteDef("Del", <<>>, "", "", "Nope"),
      BabelInclude("shared"),
      BabelInclude("outer"),
      BabelInclude("routes"),
      BabelInclude("ns"),
      BabelNamespace("files") }

\* what the first declaration of a non-empty document can be
FirstDecls == {BabelNamespace(n) : n \in NsNames} \cup {BabelInclude("shared")}

(***************************************************************************)
(* The state of a run of TowerOfBabel.parse.                               *)
(*   status      where parse is: "idle" between two documents, "doc" in    *)
(*               add_to_api, "done" returned, "failed" left by an          *)
(*               exception, "fatal" left by sys.exit(1)                    *)
(*   err         the kind of the exception raised, "" when none            *)
(*   api         self.api: namespace name -> namespace                     *)
(*   default_env TowerOfBabel.default_env                                  *)
(*   env         the env of the add_to_api call in progress                *)
(*   heap        the data type objects created so far, by identity         *)
(*   stack       the call frames: stack[1] is add_to_api, the others are   *)
(*               the _include_babelh calls in progress; a frame holds the  *)
(*               local variable path and the declarations still to process *)
(*   ns          the name of the namespace of the add_to_api call          *)
(*   ndocs       the documents parse has taken from self._scriptures       *)
(*   ndecls      the top-level declarations processed so far               *)
(*   last        the declaration processed by the last step of the         *)
(*               add_to_api call                                           *)
(*   api0        self.api as it was when the add_to_api call started       *)
(***************************************************************************)
VARIABLES status, err, api, default_env, env, heap, stack, ns, ndocs, ndecls,
          last, api0

vars == <<status, err, api, default_env, env, heap, stack, ns, ndocs, ndecls,
          last, api0>>

\* copy.copy(self.default_env)
copy(d) == d

Frame(path, rest) == [path |-> path, rest |-> rest]

Top == stack[Len(stack)]

\* TowerOfBabel.__init__ and the class body
Init ==
    /\ status = "idle"
    /\ err = ""
    /\ api = NoApi
    /\ default_env = DefaultEnv
    /\ env = NoEnv
    /\ heap = InitHeap
    /\ stack = <<>>
    /\ ns = ""
    /\ ndocs = 0
    /\ ndecls = 0
    /\ last = NoDecl
    /\ api0 = NoApi

\* the declarations the loop in progress can take next: any declaration in
\* add_to_api (the document is an input), the header's next one in
\* _include_babelh
NextItems ==
    IF status # "doc" THEN {}
    ELSE IF Len(stack) = 1 THEN (IF ndecls < MaxDecls THEN Decls ELSE {})
    ELSE IF Top.rest # <<>> THEN {Head(Top.rest)} ELSE {}

\* the loop in progress moves past its current declaration
Advance(st) ==
    IF Len(st) = 1 THEN st
    ELSE [st EXCEPT ![Len(st)].rest = Tail(@)]

Counted == ndecls' = IF Len(stack) = 1 THEN ndecls + 1 ELSE ndecls

\* an exception leaves parse
Fail(e) == /\ status' = "failed"
           /\ err' = e

Continue == UNCHANGED <<status, err>>

\* parse: the parser returned nothing for the next scripture
ParseEmpty ==
    /\ status = "idle"
    /\ ndocs < MaxDocs
    /\ ndocs' = ndocs + 1
    /\ UNCHANGED <<status, err, api, default_env, env, heap, stack, ns, ndecls,
                   last, api0>>

\* add_to_api making a new namespace for its document instead of fetching
\* the one the Api has under that name
AddToApiNewNamespace(first) ==
    /\ status = "idle"
    /\ ndocs < MaxDocs
    /\ first.type = "BabelNamespace"
    /\ ndocs' = ndocs + 1
    /\ status' = "doc"
    /\ ns' = first.name
    /\ api' = [n \in DOMAIN api \cup {first.name} |->
                IF n = first.name THEN [data_types |-> <<>>, routes |-> <<>>]
                ELSE api[n]]
    /\ env' = copy(default_env)
    /\ stack' = <<Frame(DocPath, <<>>)>>
    /\ api0' = api
    /\ last' = first
    /\ UNCHANGED <<err, default_env, heap, ndecls>>

\* add_to_api, up to its loop, when desc[0] is a namespace declaration
AddToApi(first) ==
    /\ status = "idle"
    /\ ndocs < MaxDocs
    /\ first.type = "BabelNamespace"
    /\ ndocs' = ndocs + 1
    /\ status' = "doc"
    /\ ns' = first.name
    /\ api' = ensure_namespace(api, first.name)
    /\ env' = copy(default_env)
    /\ stack' = <<Frame(DocPath, <<>>)>>
    /\ api0' = api
    /\ last' = first
    /\ UNCHANGED <<err, default_env, heap, ndecls>>

\* add_to_api raising an exception instead of calling sys.exit(1)
MissingNamespaceRaises(first) ==
    /\ status = "idle"
    /\ ndocs < MaxDocs
    /\ first.type # "BabelNamespace"
    /\ ndocs' = ndocs + 1
    /\ Fail("MissingNamespace")
    /\ last' = first
    /\ UNCHANGED <<api, default_env, env, heap, stack, ns, ndecls, api0>>

\* add_to_api when desc[0] is no namespace declaration: sys.exit(1)
MissingNamespace(first) ==
    /\ status = "idle"
    /\ ndocs < MaxDocs
    /\ first.type # "BabelNamespace"
    /\ ndocs' = ndocs + 1
    /\ status' = "fatal"
    /\ err' = "MissingNamespace"
    /\ last' = first
    /\ UNCHANGED <<api, default_env, env, heap, stack, ns, ndecls, api0>>

\* the step of the loop that called _create_alias or, in a header,
\* _create_type: r is what the call returned.  The objects a call created
\* before it raised are referenced by nothing: the heap keeps none of them
Bound(r) ==
    /\ env' = r.env
    /\ IF r.err # ""
       THEN Fail(r.err) /\ UNCHANGED <<heap, stack>>
       ELSE Continue /\ heap' = r.heap /\ stack' = Advance(stack)

\* a BabelAlias, in add_to_api or in _include_babelh
Alias(item) ==
    /\ item \in NextItems
    /\ item.type = "BabelAlias"
    /\ Bound(_create_alias(env, heap, item))
    /\ Counted
    /\ last' = item
    /\ UNCHANGED <<api, default_env, ns, ndocs, api0>>

\* namespace.add_data_type(api_type): r is what _create_type returned
Registered(r) ==
    /\ env' = r.env
    /\ IF r.err # ""
       THEN Fail(r.err) /\ UNCHANGED <<heap, api>>
       ELSE /\ heap' = r.heap
            /\ IF DuplicateType(api, r.heap, ns, r.val.id)
               THEN Fail("AlreadyDefined") /\ UNCHANGED api
               ELSE Continue /\ api' = add_data_type(api, ns, r.val.id)

\* a BabelTypeDef in add_to_api: _create_type, then namespace.add_data_type
TypeDef(item) ==
    /\ item \in NextItems
    /\ Len(stack) = 1
    /\ item.type = "BabelTypeDef"
    /\ Registered(_create_type(env, heap, item))
    /\ Counted
    /\ last' = item
    /\ UNCHANGED <<default_env, stack, ns, ndocs, api0>>

\* _include_babelh registering the type it created, as add_to_api does
HeaderTypeDefRegisters(item) ==
    /\ item \in NextItems
    /\ Len(stack) > 1
    /\ item.type = "BabelTypeDef"
    /\ Registered(_create_type(env, heap, item))
    /\ stack' = IF err' = "" THEN Advance(stack) ELSE stack
    /\ last' = item
    /\ UNCHANGED <<default_env, ns, ndocs, ndecls, api0>>

\* a BabelTypeDef in _include_babelh: _create_type alone
HeaderTypeDef(item) ==
    /\ item \in NextItems
    /\ Len(stack) > 1
    /\ item.type = "BabelTypeDef"
    /\ Bound(_create_type(env, heap, item))
    /\ last' = item
    /\ UNCHANGED <<api, default_env, ns, ndocs, ndecls, api0>>

\* a BabelRouteDef in add_to_api
RouteDef(item) ==
    /\ item \in NextItems
    /\ Len(stack) = 1
    /\ item.type = "BabelRouteDef"
    /\ LET req == _resolve_data_type(env, heap, item.request_data_type_name)
           resp == _resolve_data_type(env, heap, item.response_data_type_name)
           error == _resolve_data_type(env, heap, item.error_data_type_name)
           path == RoutePath(item)
           route == ApiRoute(item.name, path, req.val, resp.val, error.val)
       IN IF req.err # "" THEN Fail(req.err) /\ UNCHANGED <<api, stack>>
          ELSE IF resp.err # "" THEN Fail(resp.err) /\ UNCHANGED <<api, stack>>
          ELSE IF error.err # "" THEN Fail(error.err) /\ UNCHANGED <<api, stack>>
          ELSE /\ stack' = [stack EXCEPT ![1].path = path]
               /\ IF DuplicateRoute(api, ns, route)
                  THEN Fail("AlreadyDefined") /\ UNCHANGED api
                  ELSE Continue /\ api' = add_route(api, ns, route)
    /\ Counted
    /\ last' = item
    /\ UNCHANGED <<default_env, env, heap, ns, ndocs, api0>>

\* _include_babelh taking a nested include as a jump: the header named
\* replaces the one in progress in the same call frame, so that no depth of
\* nesting reaches the recursion limit
IncludeJumps(item) ==
    /\ item \in NextItems
    /\ item.type = "BabelInclude"
    /\ LET path == dirname(Top.path)
           file == babelh_path(path, item.target)
       IN IF ~exists(file)
          THEN Fail("HeaderNotFound") /\ UNCHANGED stack
          ELSE /\ Continue
               /\ stack' = IF Len(stack) = 1
                           THEN Append(stack, Frame(path, Headers[file]))
                           ELSE [stack EXCEPT ![Len(stack)] =
                                    Frame(path, Headers[file])]
    /\ Counted
    /\ last' = item
    /\ UNCHANGED <<api, default_env, env, heap, ns, ndocs, api0>>

\* a BabelInclude, in add_to_api or in _include_babelh: the call of
\* _include_babelh up to its loop.  The call itself raises (RuntimeError,
\* maximum recursion depth exceeded) when the stack is at the recursion limit
Include(item) ==
    /\ item \in NextItems
    /\ item.type = "BabelInclude"
    /\ LET path == dirname(Top.path)
           file == babelh_path(path, item.target)
       IN IF Len(stack) >= RecursionLimit
          THEN Fail("RecursionError") /\ UNCHANGED stack
          ELSE IF ~exists(file)
          THEN Fail("HeaderNotFound") /\ UNCHANGED stack
          ELSE Continue /\ stack' = Append(Advance(stack), Frame(path, Headers[file]))
    /\ Counted
    /\ last' = item
    /\ UNCHANGED <<api, default_env, env, heap, ns, ndocs, api0>>

\* the else arm of the loop of add_to_api
UnknownDecl(item) ==
    /\ item \in NextItems
    /\ Len(stack) = 1
    /\ item.type \notin {"BabelInclude", "BabelAlias", "BabelTypeDef", "BabelRouteDef"}
    /\ Fail("UnknownDeclaration")
    /\ Counted
    /\ last' = item
    /\ UNCHANGED <<api, default_env, env, heap, stack, ns, ndocs, api0>>

\* _include_babelh with the route arm of add_to_api: a route definition of
\* a header is registered on the document's namespace
HeaderAcceptsRoute(item) ==
    /\ item \in NextItems
    /\ Len(stack) > 1
    /\ item.type \notin {"BabelInclude", "BabelAlias", "BabelTypeDef"}
    /\ IF item.type = "BabelRouteDef"
       THEN /\ Continue
            /\ api' = add_route(api, ns,
                         ApiRoute(item.name, RoutePath(item), None, None, None))
            /\ stack' = Advance(stack)
       ELSE Fail("UnknownDeclaration") /\ UNCHANGED <<api, stack>>
    /\ last' = item
    /\ UNCHANGED <<default_env, env, heap, ns, ndocs, ndecls, api0>>

\* the else arm of the loop of _include_babelh
HeaderUnknownDecl(item) ==
    /\ item \in NextItems
    /\ Len(stack) > 1
    /\ item.type \notin {"BabelInclude", "BabelAlias", "BabelTypeDef"}
    /\ Fail("UnknownDeclaration")
    /\ last' = item
    /\ UNCHANGED <<api, default_env, env, heap, stack, ns, ndocs, ndecls, api0>>

\* the loop of _include_babelh ends: the call returns to its caller
HeaderReturn ==
    /\ status = "doc"
    /\ Len(stack) > 1
    /\ Top.rest = <<>>
    /\ stack' = Front(stack)
    /\ UNCHANGED <<status, err, api, default_env, env, heap, ns, ndocs, ndecls,
                   last, api0>>

\* add_to_api working on self.default_env itself (env = self.default_env,
\* no copy): what the document bound is in default_env when it returns
EndDocumentSharedEnv ==
    /\ status = "doc"
    /\ Len(stack) = 1
    /\ status' = "idle"
    /\ default_env' = env
    /\ env' = NoEnv
    /\ stack' = <<>>
    /\ ns' = ""
    /\ last' = NoDecl
    /\ api0' = api
    /\ UNCHANGED <<err, api, heap, ndocs, ndecls>>

\* the loop of add_to_api ends: the call returns and its env is dropped
EndDocument ==
    /\ status = "doc"
    /\ Len(stack) = 1
    /\ status' = "idle"
    /\ env' = NoEnv
    /\ stack' = <<>>
    /\ ns' = ""
    /\ last' = NoDecl
    /\ api0' = api
    /\ UNCHANGED <<err, api, default_env, heap, ndocs, ndecls>>

\* parse: no scripture is left, return self.api
ParseReturn ==
    /\ status = "idle"
    /\ status' = "done"
    /\ UNCHANGED <<err, api, default_env, env, heap, stack, ns, ndocs, ndecls,
                   last, api0>>

Next ==
    \/ ParseEmpty
    \/ \E first \in FirstDecls : AddToApi(first)
    \/ \E first \in FirstDecls : MissingNamespace(first)
    \/ \E item \in NextItems : Alias(item)
    \/ \E item \in NextItems : TypeDef(item)
    \/ \E item \in NextItems : HeaderTypeDef(item)
    \/ \E item \in NextItems : RouteDef(item)
    \/ \E item \in NextItems : Include(item)
    \/ \E item \in NextItems : UnknownDecl(item)
    \/ \E item \in NextItems : HeaderUnknownDecl(item)
    \/ HeaderReturn
    \/ EndDocument
    \/ ParseReturn

Spec == Init /\ [][Next]_vars

\* the loop of an _include_babelh call in progress processes the next
\* declaration of its header
HeaderStep ==
    /\ Len(stack) > 1
    /\ \E item \in NextItems :
         \/ Alias(item)
         \/ HeaderTypeDef(item)
         \/ Include(item)
         \/ HeaderUnknownDecl(item)

\* parse is one sequential call and nothing in it waits on another thread
\* or on an event: the interpreter executes the statement that comes next.
\* A loop over a header goes on to the header's next declaration, a loop
\* that has nothing left returns, and parse returns once self._scriptures
\* is exhausted (how many scriptures there are, and how many declarations
\* in each, is the input's choice: finitely many)
LiveSpec ==
    /\ Spec
    /\ WF_vars(HeaderStep)
    /\ WF_vars(HeaderReturn)
    /\ WF_vars(EndDocument)
    /\ WF_vars(ParseReturn)

(***************************************************************************)
(* Vocabulary of the properties.                                           *)
(***************************************************************************)
\* a step of a loop on one declaration, which last' then names: the loops
\* never shorten the stack, the two returns do
DeclStep ==
    /\ status = "doc"
    /\ status' \in {"doc", "failed"}
    /\ Len(stack') >= Len(stack)

\* the declaration of the step binds a name: an alias or a type definition
Binds(item) == item.type \in {"BabelAlias", "BabelTypeDef"}

\* the type and route lists of the namespace n of the Api a (empty when the
\* Api has no such namespace)
ListsOf(a, n) ==
    IF n \in DOMAIN a THEN a[n] ELSE [data_types |-> <<>>, routes |-> <<>>]

\* the symbols among the attributes attrs
AttrSymbols(attrs) == {attrs[i].v : i \in {j \in 1..Len(attrs) : attrs[j].sym}}

\* the names the raw field f refers to
FieldRefs(f) ==
    IF f.kind = "BabelField"
    THEN {f.data_type_name} \cup AttrSymbols(f.data_type_attrs) ELSE {}

\* the names the declaration item refers to
Refs(item) ==
    CASE item.type = "BabelAlias" ->
           {item.data_type_name} \cup AttrSymbols(item.data_type_attrs)
      [] item.type = "BabelTypeDef" ->
           (IF item.composite_type = "struct" /\ item.extends # ""
            THEN {item.extends} ELSE {})
           \cup UNION {FieldRefs(item.fields[i]) : i \in 1..Len(item.fields)}
      [] item.type = "BabelRouteDef" ->
           {item.request_data_type_name, item.response_data_type_name,
            item.error_data_type_name} \ {""}
      [] OTHER -> {}

\* the object h[i] is a struct built from a type definition
IsStruct(h, i) == i \in 1..Len(h) /\ h[i].cls = "Struct"

(***************************************************************************)
(* C1: a declaration that binds a name already in the environment fails    *)
(* AlreadyDefined, and from one declaration to the next of a document no   *)
(* binding of the environment is removed or changed.                       *)
(***************************************************************************)
C1_NoRebinding ==
    [][DeclStep =>
         /\ \A n \in DOMAIN env : n \in DOMAIN env' /\ env'[n] = env[n]
         /\ (Binds(last') /\ last'.name \in DOMAIN env) => err' = "AlreadyDefined"
      ]_vars

(***************************************************************************)
(* C2: when a document fails, every namespace has the type list and the    *)
(* route list it had when add_to_api started on the document.              *)
(***************************************************************************)
C2_NoPartialRegistration ==
    status = "failed" =>
        \A n \in DOMAIN api : ListsOf(api, n) = ListsOf(api0, n)

(***************************************************************************)
(* C3: an alias, a type definition or a route succeeds only if every name  *)
(* it refers to (alias target, extends target, field type, attribute       *)
(* symbol, route payload) was bound before the declaration was processed.  *)
(***************************************************************************)
C3_NoForwardReference ==
    [][(DeclStep /\ err' = "") => Refs(last') \subseteq DOMAIN env]_vars

(***************************************************************************)
(* C4: the super type of every struct is absent or a struct object.        *)
(***************************************************************************)
C4_SuperTypeIsStruct ==
    \A i \in 1..Len(heap) :
        IsStruct(heap, i) =>
            \/ heap[i].super = None
            \/ heap[i].super.kind = "inst" /\ IsStruct(heap, heap[i].super.id)

(***************************************************************************)
(* Vocabulary of the properties on the fields of a type definition.        *)
(***************************************************************************)
NotCatchAll(f) == f.kind # "BabelCatchAllSymbol"

\* the raw fields of item that _create_type builds a field from, in order
Built(item) == SelectSeq(item.fields, NotCatchAll)

\* the step built the composite type of a type definition (it is the last
\* object created)
TypeBuilt == DeclStep /\ last'.type = "BabelTypeDef" /\ Len(heap') > Len(heap)

\* the raw field f names an object of the environment e and gives attributes
AttrsOnInstance(e, f) ==
    /\ f.kind = "BabelField"
    /\ f.data_type_name \in DOMAIN e
    /\ ~isclass(e[f.data_type_name])
    /\ f.data_type_attrs # <<>>

\* id is an object created by the step, of class c
Fresh(id, c) == id > Len(heap) /\ id <= Len(heap') /\ heap'[id].cls = c

(***************************************************************************)
(* C5: instantiation in _create_alias and in _resolve_type.  A constructor *)
(* entry yields an object created by the step, of the constructor's class, *)
(* carrying the attributes, and no two fields share an object so created;  *)
(* an object entry with attributes fails AttributesOnInstance and binds    *)
(* nothing; an object entry without attributes is bound or returned itself *)
(* (no object is created for it).                                          *)
(***************************************************************************)
C5_AliasInstantiation ==
    (DeclStep /\ last'.type = "BabelAlias" /\ last'.name \notin DOMAIN env
        /\ last'.data_type_name \in DOMAIN env) =>
      LET item == last'
          e == env[item.data_type_name]
      IN /\ isclass(e) =>
               /\ err' = ""
               /\ env'[item.name].kind = "inst"
               /\ Fresh(env'[item.name].id, e.cls)
               /\ Len(heap'[env'[item.name].id].attrs) = Len(item.data_type_attrs)
         /\ (~isclass(e) /\ item.data_type_attrs # <<>>) =>
               /\ err' = "AttributesOnInstance"
               /\ env' = env
         /\ (~isclass(e) /\ item.data_type_attrs = <<>>) =>
               /\ err' = ""
               /\ env'[item.name] = e
               /\ heap' = heap

C5_FieldInstantiation ==
    TypeBuilt =>
      LET raw == Built(last')
          new == heap'[Len(heap')]
      IN \A j \in 1..Len(raw) :
           raw[j].kind = "BabelField" =>
             LET e == env[raw[j].data_type_name]
                 d == new.fields[j].data_type
                 given == raw[j].data_type_attrs
             IN /\ isclass(e) =>
                      /\ d.kind = "inst"
                      /\ Fresh(d.id, e.cls)
                      /\ Len(heap'[d.id].attrs) = Len(given)
                      /\ \A k \in 1..Len(raw) : k # j => new.fields[k].data_type # d
                      /\ \A a \in 1..Len(given) :
                           LET got == heap'[d.id].attrs[a]
                           IN IF given[a].sym
                              THEN /\ got.tag = "obj"
                                   /\ IF isclass(env[given[a].v])
                                      THEN Fresh(got.id, env[given[a].v].cls)
                                      ELSE got.id = env[given[a].v].id
                              ELSE got = AttrLit(given[a].k, given[a].v)
                /\ ~isclass(e) => (given = <<>> /\ d = e)

C5_FieldAttributesOnInstance ==
    (DeclStep /\ last'.type = "BabelTypeDef") =>
      LET item == last'
          bad == \E j \in 1..Len(item.fields) : AttrsOnInstance(env, item.fields[j])
      IN /\ bad => (err' # "" /\ env' = env /\ api' = api)
         /\ err' = "AttributesOnInstance" => bad

\* C5: the three cases of instantiation hold of every alias step and of
\* every type definition step (fields and their attribute symbols)
C5_Instantiation ==
    [][C5_AliasInstantiation /\ C5_FieldInstantiation
         /\ C5_FieldAttributesOnInstance]_vars

\* the struct B was built: its two String fields are two objects with their
\* own attributes, its field of type N is the Null object the alias N shares
C5_Witness ==
    \E i \in 1..Len(heap) :
        /\ heap[i].name = "B"
        /\ heap[i].fields[1].data_type # heap[i].fields[2].data_type
        /\ heap[heap[i].fields[1].data_type.id].attrs
             # heap[heap[i].fields[2].data_type.id].attrs
        /\ heap[i].fields[3].data_type = DefaultEnv["Null"]

(***************************************************************************)
(* C6: defaults.  A field is built with a default only if the default is   *)
(* null on a nullable field or is not null and accepted by the type's      *)
(* check; the default built is the one declared; a type definition fails   *)
(* InvalidDefault only for a default that had to be checked; and a null    *)
(* default on a field that is not nullable always fails.                   *)
(***************************************************************************)
NullableNull(f) == f.nullable /\ f.default = "null"

NullNotNullable(f) == f.has_default /\ ~f.nullable /\ f.default = "null"

C6_DefaultsBuilt ==
    TypeBuilt =>
      LET raw == Built(last')
          new == heap'[Len(heap')]
      IN \A j \in 1..Len(raw) :
           raw[j].has_default =>
             /\ new.fields[j].has_default
             /\ new.fields[j].default = raw[j].default
             /\ \/ NullableNull(raw[j])
                \/ raw[j].default # "null" /\ raw[j].check_ok

C6_DefaultsRefused ==
    (DeclStep /\ last'.type = "BabelTypeDef") =>
      LET fields == last'.fields
      IN /\ err' = "InvalidDefault" =>
               \E j \in 1..Len(fields) :
                   /\ fields[j].has_default
                   /\ ~NullableNull(fields[j])
                   /\ (fields[j].default = "null" \/ ~fields[j].check_ok)
         /\ (\E j \in 1..Len(fields) : NullNotNullable(fields[j])) => err' # ""

\* C6: a default is attached only when null on a nullable field or accepted
\* by the check, and a null default on a field that is not nullable fails
C6_Defaults == [][C6_DefaultsBuilt /\ C6_DefaultsRefused]_vars

(***************************************************************************)
(* C7: an alias a of a catalog constructor c without attributes, and the   *)
(* fields of a type definition declared with type a or with type c         *)
(* (without attributes).                                                   *)
(***************************************************************************)
\* in the environment e, a is an alias of the catalog constructor c, made
\* without attributes
AliasOfCtor(e, h, a, c) ==
    /\ a \notin DOMAIN DefaultEnv
    /\ e[a].kind = "inst"
    /\ c \in DOMAIN DefaultEnv
    /\ e[c] = Ctor(c)
    /\ h[e[a].id] = Construct(c, <<>>)

\* the raw field f is declared with the type name n and no attribute
Typed(f, n) ==
    f.kind = "BabelField" /\ f.data_type_name = n /\ f.data_type_attrs = <<>>

\* C7 as claimed: a field typed a and a field typed c carry the identical
\* object
C7_SameInstance ==
    [][TypeBuilt =>
         LET raw == Built(last')
             new == heap'[Len(heap')]
         IN \A a, c \in DOMAIN env : \A j, k \in 1..Len(raw) :
              (AliasOfCtor(env, heap, a, c) /\ Typed(raw[j], a) /\ Typed(raw[k], c))
                => new.fields[j].data_type = new.fields[k].data_type
      ]_vars

\* C7 as amended: every field typed a carries the alias's own object; every
\* field typed c carries an object the step created for it alone, equal to
\* the alias's object in class and attributes but another object
C7_AliasSharedCtorFresh ==
    [][TypeBuilt =>
         LET raw == Built(last')
             new == heap'[Len(heap')]
         IN \A a, c \in DOMAIN env : \A j, k \in 1..Len(raw) :
              (AliasOfCtor(env, heap, a, c) /\ Typed(raw[j], a) /\ Typed(raw[k], c))
                => LET da == new.fields[j].data_type
                       dc == new.fields[k].data_type
                   IN /\ da = env[a]
                      /\ dc.kind = "inst"
                      /\ Fresh(dc.id, c)
                      /\ heap'[dc.id] = heap'[da.id]
                      /\ \A m \in 1..Len(raw) :
                           m # k => new.fields[m].data_type # dc
      ]_vars

\* the struct A was built after the alias MyInt: its fields b and c (MyInt)
\* carry one object, its fields a and d (Int32) two others
C7_Witness ==
    \E i \in 1..Len(heap) :
        /\ heap[i].name = "A"
        /\ Len(heap[i].fields) = 4
        /\ heap[i].fields[2].data_type = heap[i].fields[3].data_type
        /\ heap[i].fields[1].data_type # heap[i].fields[2].data_type
        /\ heap[i].fields[1].data_type # heap[i].fields[4].data_type

(***************************************************************************)
(* C8: an include, and every step of the header it processes, at any       *)
(* depth, leaves the Api as it is and removes no name from the             *)
(* environment; the type a header defines is bound in the environment      *)
(* when its definition returns and is on no namespace's type list.         *)
(***************************************************************************)
\* the object id is on the type list of some namespace of the Api a
Listed(a, id) ==
    \E n \in DOMAIN a : \E i \in 1..Len(a[n].data_types) : a[n].data_types[i] = id

\* a step of _include_babelh, or the step of the loop that calls it
InInclude ==
    /\ status = "doc"
    /\ \/ Len(stack) > 1
       \/ DeclStep /\ last'.type = "BabelInclude"

C9_UndefinedSymbolBuildsNothing ==
    [][(DeclStep /\ err' = "UndefinedSymbol") => (env' = env /\ api' = api)]_vars

\* the union U failed on the attribute symbol MyInt of its last field, after
\* its field m had been built
C9_Witness ==
    /\ status = "failed"
    /\ err = "UndefinedSymbol"
    /\ last.name = "U"
    /\ "MyInt" \notin DOMAIN env
    /\ "U" \notin DOMAIN env

(***************************************************************************)
(* C10: a document whose first declaration is no namespace declaration     *)
(* ends the run with the fatal MissingNamespace: nothing of the Api, the   *)
(* environment or the heap changes, no declaration is processed, no step   *)
(* follows, and the outcome is told apart from an exception.               *)
(***************************************************************************)
\* add_to_api is entered with the first declaration last'
Entering == status = "idle" /\ last' # last

C10_Fatal ==
    [][/\ (Entering /\ last'.type # "BabelNamespace") =>
             /\ status' = "fatal"
             /\ err' = "MissingNamespace"
             /\ api' = api /\ env' = env /\ heap' = heap /\ ndecls' = ndecls
       /\ (Entering /\ last'.type = "BabelNamespace") => status' = "doc"
       /\ status # "fatal"
      ]_vars

C10_Distinct ==
    /\ status = "fatal" <=> err = "MissingNamespace"
    /\ status = "failed" => err \notin {"", "MissingNamespace"}
    /\ status \in {"idle", "doc", "done"} => err = ""

\* C10: a first declaration that is no namespace ends the run, fatally,
\* before anything is fetched, created or processed
C10_MissingNamespace == []C10_Distinct /\ C10_Fatal

\* the second document of a run has no namespace declaration: the run is
\* over, the first document's namespace is all the Api has
C10_Witness ==
    /\ status = "fatal"
    /\ ndocs = 2
    /\ DOMAIN api = {"files"}
    /\ Len(api["files"].data_types) > 0
    /\ last.type = "BabelInclude"

(***************************************************************************)
(* Vocabulary: the objects reachable from the environment and the Api.     *)
(***************************************************************************)
\* the identities a value names
IdsOf(v) == IF v.kind = "inst" THEN {v.id} ELSE {}

\* the objects the object h[i] refers to: the data types of its fields, its
\* super type, the data types among its attribute values
RefersTo(h, i) ==
    UNION {IdsOf(h[i].fields[j].data_type) : j \in 1..Len(h[i].fields)}
    \cup IdsOf(h[i].super)
    \cup {h[i].attrs[a].id : a \in {b \in 1..Len(h[i].attrs) : h[i].attrs[b].tag = "obj"}}

\* the objects bound in the environment e, registered on a namespace of the
\* Api a, or payload of a registered route
Roots(e, a) ==
    UNION {IdsOf(e[n]) : n \in DOMAIN e}
    \cup UNION {{a[n].data_types[i] : i \in 1..Len(a[n].data_types)} : n \in DOMAIN a}
    \cup UNION {UNION {IdsOf(a[n].routes[i].request_data_type)
                       \cup IdsOf(a[n].routes[i].response_data_type)
                       \cup IdsOf(a[n].routes[i].error_data_type) :
                          i \in 1..Len(a[n].routes)} : n \in DOMAIN a}

\* the objects reachable from the roots through RefersTo
Reachable(h, roots) ==
    LET reach[k \in 0..Len(h)] ==
          IF k = 0 THEN roots
          ELSE reach[k - 1] \cup UNION {RefersTo(h, i) : i \in reach[k - 1]}
    IN reach[Len(h)]

(***************************************************************************)
(* C11: no object bound in the environment or reachable from a registered  *)
(* type or route carries an attribute whose value is a raw symbol          *)
(* reference.                                                              *)
(***************************************************************************)
C11_ResolvedAttributes ==
    \A i \in Reachable(heap, Roots(env, api)) :
        \A a \in 1..Len(heap[i].attrs) : heap[i].attrs[a].tag # "sym"

(***************************************************************************)
(* C12: the Api holds one namespace per declared name, and a namespace's   *)
(* type list and route list only grow, at their end, by the type or route  *)
(* of each top-level definition that succeeds, in the order the            *)
(* definitions are processed (documents in order, declarations in order);  *)
(* no other step touches a list, so the lists of a name are the            *)
(* concatenation of what the documents declaring it define.                *)
(***************************************************************************)
\* add_to_api fetches the namespace of its document, or creates it empty
C12_FetchOrCreate ==
    (Entering /\ last'.type = "BabelNamespace") =>
        /\ DOMAIN api' = DOMAIN api \cup {last'.name}
        /\ \A n \in DOMAIN api : api'[n] = api[n]
        /\ last'.name \notin DOMAIN api =>
             api'[last'.name] = [data_types |-> <<>>, routes |-> <<>>]
        /\ ns' = last'.name

\* a step that is not a successful top-level definition leaves the Api alone
C12_OthersKeep ==
    (/\ ~Entering
     /\ ~(DeclStep /\ err' = "" /\ Len(stack) = 1
            /\ last'.type \in {"BabelTypeDef", "BabelRouteDef"}))
      => (err' = "" => api' = api)

\* a successful top-level definition appends to one list of its namespace
C12_Appends ==
    (DeclStep /\ err' = "" /\ Len(stack) = 1) =>
        /\ DOMAIN api' = DOMAIN api
        /\ \A n \in DOMAIN api : n # ns => api'[n] = api[n]
        /\ last'.type = "BabelTypeDef" =>
             /\ api'[ns].data_types = Append(api[ns].data_types, Len(heap'))
             /\ Len(heap') > Len(heap)
             /\ heap'[Len(heap')].name = last'.name
             /\ api'[ns].routes = api[ns].routes
        /\ last'.type = "BabelRouteDef" =>
             /\ Len(api'[ns].routes) = Len(api[ns].routes) + 1
             /\ Front(api'[ns].routes) = api[ns].routes
             /\ api'[ns].routes[Len(api'[ns].routes)].name = last'.name
             /\ api'[ns].data_types = api[ns].data_types

C12_Accumulates == [][C12_FetchOrCreate /\ C12_OthersKeep /\ C12_Appends]_vars

\* two documents declared the namespace files: the first defined the union
\* U, the second, in progress, the struct C; the one namespace lists U then
\* C, unsorted
C12_Witness ==
    /\ status = "doc"
    /\ ndocs = 2
    /\ DOMAIN api = {"files"}
    /\ DOMAIN api0 = {"files"}
    /\ Len(api0["files"].data_types) = 1
    /\ Len(api["files"].data_types) = 2
    /\ heap[api["files"].data_types[1]].name = "U"
    /\ heap[api["files"].data_types[2]].name = "C"

(***************************************************************************)
(* Vocabulary of the properties on routes.                                 *)
(***************************************************************************)
\* the step registered the route of a route definition
RouteBuilt ==
    /\ DeclStep /\ err' = ""
    /\ Len(stack) = 1
    /\ last'.type = "BabelRouteDef"

\* the route the step registered: the last of its namespace's list
NewRoute == api'[ns].routes[Len(api'[ns].routes)]

\* p without its first k tokens
Drop(p, k) == SubSeq(p, k + 1, Len(p))

(***************************************************************************)
(* C13: the path of a route.  Without an explicit path it is the route's   *)
(* name lower-cased.  With an explicit path, as claimed: that path without *)
(* its first token when that token is a separator, and as it is otherwise. *)
(***************************************************************************)
C13_SingleSeparatorStripped ==
    [][RouteBuilt =>
         IF last'.path = <<>>
         THEN NewRoute.path = <<lower(last'.name)>>
         ELSE NewRoute.path = (IF Head(last'.path) = "/" THEN Drop(last'.path, 1)
                               ELSE last'.path)
      ]_vars

\* C13 as amended: with an explicit path, the route's path is that path
\* without its whole leading run of separators (it starts with none), the
\* rest token for token as given
C13_LeadingSeparatorsStripped ==
    [][RouteBuilt =>
         IF last'.path = <<>>
         THEN NewRoute.path = <<lower(last'.name)>>
         ELSE \E k \in 0..Len(last'.path) :
                /\ \A i \in 1..k : last'.path[i] = "/"
                /\ NewRoute.path = Drop(last'.path, k)
                /\ NewRoute.path # <<>> => Head(NewRoute.path) # "/"
      ]_vars

\* the namespace files has the routes GetA, at its lower-cased name, and
\* Put, at its explicit path without the two separators it started with,
\* its X still upper-case
C13_Witness ==
    /\ "files" \in DOMAIN api
    /\ \E i, k \in 1..Len(api["files"].routes) :
         /\ api["files"].routes[i].name = "GetA"
         /\ api["files"].routes[i].path = <<"geta">>
         /\ api["files"].routes[k].name = "Put"
         /\ api["files"].routes[k].path = <<"X", "/", "y">>

(***************************************************************************)
(* Vocabulary of the properties on includes.                               *)
(***************************************************************************)
\* the step is the call of _include_babelh for an include declaration
IncludeStep == DeclStep /\ last'.type = "BabelInclude"

\* the step found the header at the path file and entered its declarations;
\* when no header is at that path it failed HeaderNotFound
LooksUp(file) ==
    IF exists(file)
    THEN /\ err' = ""
         /\ Len(stack') = Len(stack) + 1
         /\ stack'[Len(stack')].rest = Headers[file]
    ELSE err' = "HeaderNotFound"

(***************************************************************************)
(* C14: every include of a top-level document is looked up in the          *)
(* directory of the document, wherever it stands among the declarations.   *)
(***************************************************************************)
C14_IncludeDirectory ==
    [][(IncludeStep /\ Len(stack) = 1) =>
         LooksUp(babelh_path(dirname(DocPath), last'.target))]_vars

(***************************************************************************)
(* C15: an include inside a header is looked up in the directory the       *)
(* header itself was looked up in (the path of the _include_babelh call in *)
(* progress), at every depth.                                              *)
(***************************************************************************)
C15_NestedIncludeDirectory ==
    [][(IncludeStep /\ Len(stack) > 1 /\ Len(stack) < RecursionLimit) =>
         LooksUp(babelh_path(Top.path, last'.target))]_vars

(***************************************************************************)
(* C16: the declarations a loop accepts.  In a header, a declaration that  *)
(* is no include, alias or type definition (a route definition, a          *)
(* namespace declaration) fails UnknownDeclaration when the loop reaches   *)
(* it; in a document, after the first, a declaration that is none of these *)
(* nor a route definition (a second namespace declaration) does; the       *)
(* failing step changes neither the Api nor the environment, no step       *)
(* fails so for another reason, and no step of an include changes the      *)
(* route list of any namespace.                                            *)
(***************************************************************************)
HeaderKinds == {"BabelInclude", "BabelAlias", "BabelTypeDef"}

DocumentKinds == HeaderKinds \cup {"BabelRouteDef"}

\* the declaration of the step is one its loop has no arm for
Unknown ==
    /\ DeclStep
    /\ last'.type \notin (IF Len(stack) > 1 THEN HeaderKinds ELSE DocumentKinds)

\* the route lists of the Api a, by namespace
RoutesOf(a) == [n \in DOMAIN a |-> a[n].routes]

C16_UnknownDeclaration ==
    [][/\ Unknown => /\ status' = "failed"
                     /\ err' = "UnknownDeclaration"
                     /\ api' = api /\ env' = env
       /\ (DeclStep /\ err' = "UnknownDeclaration") => Unknown
       /\ InInclude => RoutesOf(api') = RoutesOf(api)
      ]_vars

\* the header routes.babelh defined its struct String, then failed on its
\* route definition GetA: the namespace has no route
C16_Witness ==
    /\ status = "failed"
    /\ err = "UnknownDeclaration"
    /\ Len(stack) = 2
    /\ last.type = "BabelRouteDef"
    /\ env["String"].kind = "inst"
    /\ \A n \in DOMAIN api : api[n].routes = <<>>

(***************************************************************************)
(* C17: default_env keeps the bindings the class body gave it, and every   *)
(* add_to_api call starts from exactly these: no name an earlier document  *)
(* bound (by alias, type definition or include) is in the environment of a *)
(* later one, and no catalog name an earlier document rebound keeps that   *)
(* binding, whether or not the documents declare the same namespace.       *)
(***************************************************************************)
C17_CatalogKept == default_env = DefaultEnv

C17_FreshEnvironment ==
    [][(Entering /\ last'.type = "BabelNamespace") =>
         /\ DOMAIN env' = DOMAIN DefaultEnv
         /\ \A n \in DOMAIN DefaultEnv : env'[n] = DefaultEnv[n]
      ]_vars

C17_Isolation == []C17_CatalogKept /\ C17_FreshEnvironment

\* a first document of the namespace files bound the alias MyInt and built
\* the union U from it; the second document of files, in progress, fails
\* UndefinedSymbol on that very union: MyInt is not in its environment
C17_Witness ==
    /\ status = "failed"
    /\ err = "UndefinedSymbol"
    /\ ndocs = 2
    /\ ns = "files"
    /\ last.name = "U"
    /\ "MyInt" \notin DOMAIN env
    /\ "files" \in DOMAIN api0
    /\ Len(api0["files"].data_types) = 1
    /\ heap[api0["files"].data_types[1]].name = "U"

(***************************************************************************)
(* C18: the payloads of a route.  The route a route definition registers   *)
(* has each of its request, response and error data types absent exactly   *)
(* when the definition gives no name for it, and an object otherwise,      *)
(* never a class; a definition naming a data type that is not in the       *)
(* environment fails UndefinedSymbol and registers no route.               *)
(***************************************************************************)
\* v is the payload a route carries for the data type name n
Payload(n, v) ==
    /\ v = None <=> n = ""
    /\ n # "" => v.kind = "inst"

C18_PayloadsBuilt ==
    RouteBuilt =>
        /\ Payload(last'.request_data_type_name, NewRoute.request_data_type)
        /\ Payload(last'.response_data_type_name, NewRoute.response_data_type)
        /\ Payload(last'.error_data_type_name, NewRoute.error_data_type)

C18_UndefinedPayload ==
    (DeclStep /\ last'.type = "BabelRouteDef" /\ Len(stack) = 1
       /\ ~(Refs(last') \subseteq DOMAIN env))
      => (err' = "UndefinedSymbol" /\ api' = api)

\* C18: each payload of a registered route is absent iff its name is empty
\* and is an object otherwise; an unbound name registers no route
C18_RoutePayloads == [][C18_PayloadsBuilt /\ C18_UndefinedPayload]_vars

(***************************************************************************)
(* C19: every run of parse ends: it returns the Api (done), or an          *)
(* exception (failed) or sys.exit (fatal) leaves it, whatever the headers  *)
(* include, themselves and each other cyclically or the same header more   *)
(* than once.                                                              *)
(***************************************************************************)
Terminal == status \in {"done", "failed", "fatal"}

C19_Terminates == <>Terminal

\* the headers ping and pong include each other; the run went once round
\* the cycle, ping being entered a second time, and ended with the
\* interpreter's RecursionError
C19_Witness ==
    /\ status = "failed"
    /\ err = "RecursionError"
    /\ last = BabelInclude("pong")
    /\ Len(stack) = RecursionLimit

====
